---- MODULE Spec2Model ----
(***************************************************************************)
(* Model of src/script.py (RomaYemekScraper): fetch -> html_to_markdown -> *)
(* _clean_markdown -> process_with_openai -> main's presentation.          *)
(*                                                                         *)
(* A Python str is a sequence of one-character strings, so len() is Len,   *)
(* s[:n] is SubSeq(s, 1, n) and + is \o.  A Python dict is a function from *)
(* key strings to values, {} is the function with the empty domain.        *)
(***************************************************************************)
EXTENDS Integers, Sequences, FiniteSets, TLC

VARIABLES
    pc,               \* position in main / scrape_and_process_roma_yemek
    net,              \* what the network does on requests.get
    md_raw,           \* what markdownify returns for the fetched page
    llm,              \* what the completion service does when called
    html_content,     \* scrape_and_process_roma_yemek: html_content
    markdown_content, \* scrape_and_process_roma_yemek: markdown_content
    openai_result,    \* scrape_and_process_roma_yemek: openai_result
    results,          \* scrape_and_process_roma_yemek: results
    returned,         \* main: results, the dict the orchestrator returned
    llm_calls,        \* number of chat.completions.create calls issued
    doc_sent,         \* process_with_openai: markdown_content after the cut
    prompt,           \* process_with_openai: prompt after += markdown_content
    printed,          \* which branch of main's final if/else printed
    clean_in,         \* _clean_markdown: the text passed by the caller
    clean_out         \* _clean_markdown: outputs of successive applications

envVars   == <<net, md_raw, llm>>
pipeVars  == <<pc, html_content, markdown_content, openai_result, results,
               returned, llm_calls, doc_sent, prompt, printed>>
cleanVars == <<clean_in, clean_out>>
vars      == <<envVars, pipeVars, cleanVars>>

----------------------------------------------------------------------------
(* Text primitives                                                         *)

\* p occurs in s starting at index i (1-based)
MatchAt(s, p, i) ==
    /\ i >= 1
    /\ i + Len(p) - 1 <= Len(s)
    /\ \A k \in 1..Len(p) : s[i + k - 1] = p[k]

\* characters str.strip() and the regex class \s remove (ASCII part)
Whitespace == {" ", "\n", "\t", "\r", "\f"}

\* number of consecutive "\n" in s starting at index i
RECURSIVE NewlineRun(_, _)
NewlineRun(s, i) ==
    IF i <= Len(s) /\ s[i] = "\n" THEN 1 + NewlineRun(s, i + 1) ELSE 0

\* s has three or more consecutive newline characters somewhere
HasTripleNewline(s) ==
    \E i \in 1..Len(s) : MatchAt(s, <<"\n", "\n", "\n">>, i)

----------------------------------------------------------------------------
(* _clean_markdown                                                         *)

SKIP_TO_CONTENT ==
    <<"S","k","i","p"," ","t","o"," ","c","o","n","t","e","n","t">>
BIZ_EVDE_YOKUZ ==
    <<"B","i","z"," ","E","v","d","e"," ","Y","o","k","u","z">>

\* re.sub(r'\n{N,}', '\n\n', s) scanning from index i
RECURSIVE CollapseFrom(_, _, _)
CollapseFrom(s, i, N) ==
    IF i > Len(s) THEN <<>>
    ELSE LET r == NewlineRun(s, i) IN
         IF r >= N THEN <<"\n", "\n">> \o CollapseFrom(s, i + r, N)
         ELSE IF r >= 1
              THEN SubSeq(s, i, i + r - 1) \o CollapseFrom(s, i + r, N)
              ELSE <<s[i]>> \o CollapseFrom(s, i + 1, N)

CollapseNewlinesLoose(s) == CollapseFrom(s, 1, 4)

\* re.sub(r'\n{3,}', '\n\n', markdown_content)
CollapseNewlines(s) == CollapseFrom(s, 1, 3)

\* s without its leading / trailing characters that belong to W
RECURSIVE LStripChars(_, _)
LStripChars(s, W) ==
    IF s # <<>> /\ s[1] \in W THEN LStripChars(Tail(s), W) ELSE s

RECURSIVE RStripChars(_, _)
RStripChars(s, W) ==
    IF s # <<>> /\ s[Len(s)] \in W
    THEN RStripChars(SubSeq(s, 1, Len(s) - 1), W) ELSE s

\* markdown_content.strip()
Strip(s) == RStripChars(LStripChars(s, Whitespace), Whitespace)

\* indices at or after i where the anchor phrase starts
AnchorStarts(s, i) == {j \in i..Len(s) : MatchAt(s, BIZ_EVDE_YOKUZ, j)}

Min(S) == CHOOSE x \in S : \A y \in S : x <= y

\* re.sub(r'Skip to content.*?Biz Evde Yokuz', repl, s, flags=re.DOTALL)
\* scanning from index i: leftmost match, lazy span, non-overlapping
RECURSIVE SubBoilerplateFrom(_, _, _)
SubBoilerplateFrom(s, i, repl) ==
    IF i > Len(s) THEN <<>>
    ELSE LET ends == IF MatchAt(s, SKIP_TO_CONTENT, i)
                     THEN AnchorStarts(s, i + Len(SKIP_TO_CONTENT))
                     ELSE {}
         IN  IF ends # {}
             THEN repl \o SubBoilerplateFrom(
                              s, Min(ends) + Len(BIZ_EVDE_YOKUZ), repl)
             ELSE <<s[i]>> \o SubBoilerplateFrom(s, i + 1, repl)

RemoveBoilerplateDropAnchor(s) == SubBoilerplateFrom(s, 1, <<>>)

RemoveBoilerplate(s) == SubBoilerplateFrom(s, 1, BIZ_EVDE_YOKUZ)

\* RomaYemekScraper._clean_markdown
CleanMarkdown(s) == RemoveBoilerplate(Strip(CollapseNewlines(s)))

----------------------------------------------------------------------------
(* process_with_openai: the size cut and the prompt                        *)
(* A character outside ASCII, and the backtick, is written "uXXXX", its    *)
(* code point.                                                             *)

MAX_CHARS == 15000

\* "\n\n[... kisaltildi]", the text appended after the cut
TRUNCATION_NOTICE ==
    <<"\n","\n","[","u0130","u00E7","e","r","i","k"," ","u00E7","o","k"," ",
      "u","z","u","n"," ","o","l","d","u","u011F","u"," ","i","u00E7",
      "i","n"," ","k","u0131","s","a","l","t","u0131","l","d","u0131","]">>

\* the triple-quoted literal assigned to prompt, ending "Islenecek icerik:"
PROMPT_TEMPLATE ==
    <<"\n"," "," "," "," "," "," "," "," ","B","u"," ","i","u00E7",
      "e","r","i","k"," ","R","o","m","a","'","d","a","k","i",
      " ","y","e","m","e","k"," ","r","e","h","b","e","r","i",
      " ","h","a","k","k","u0131","n","d","a"," ","b","i","l","g",
      "i","l","e","r"," ","i","u00E7","e","r","i","y","o","r",".",
      " ","L","u00FC","t","f","e","n"," ","a","u015F","a","u011F","u0131","d",
      "a","k","i"," ","b","i","l","g","i","l","e","r","i"," ",
      "u00E7","u0131","k","a","r"," ","v","e"," ","J","S","O","N"," ",
      "f","o","r","m","a","t","u0131","n","d","a"," ","y","a","n",
      "u0131","t"," ","v","e","r",":","\n"," "," "," "," "," "," ",
      " "," ","\n"," "," "," "," "," "," "," "," ","1","."," ",
      "R","o","m","a","'","d","a"," ","d","e","n","e","n","m",
      "e","s","i"," ","g","e","r","e","k","e","n"," ","e","n",
      " ","u00F6","n","e","m","l","i"," ","y","e","m","e","k","l",
      "e","r"," ","v","e"," ","t","a","t","l","u0131","l","a","r",
      " ","n","e","l","e","r","d","i","r","?","\n"," "," "," ",
      " "," "," "," "," ","2","."," ","H","e","r"," ","y","e",
      "m","e","k"," ","i","u00E7","i","n"," ","e","n"," ","i","y",
      "i"," ","r","e","s","t","o","r","a","n","l","a","r"," ",
      "h","a","n","g","i","l","e","r","i","d","i","r","?"," ",
      "(","A","d","r","e","s"," ","v","e"," ","i","l","e","t",
      "i","u015F","i","m"," ","b","i","l","g","i","l","e","r","i",
      "y","l","e",")","\n"," "," "," "," "," "," "," "," ","3",
      "."," ","R","o","m","a"," ","m","u","t","f","a","u011F","u0131",
      "n","u0131","n"," ","g","e","n","e","l"," ","u00F6","z","e","l",
      "l","i","k","l","e","r","i"," ","n","e","l","e","r","d",
      "i","r","?","\n"," "," "," "," "," "," "," "," ","\n"," ",
      " "," "," "," "," "," "," ","Y","a","n","u0131","t","u0131","n",
      "u0131"," ","u015F","u"," ","f","o","r","m","a","t","t","a"," ",
      "y","a","p","u0131","l","a","n","d","u0131","r",":","\n"," "," ",
      " "," "," "," "," "," ","{","\n"," "," "," "," "," "," ",
      " "," "," "," ","\"","r","o","m","a","_","m","u","t","f",
      "a","g","i","_","o","z","e","l","l","i","k","l","e","r",
      "i","\"",":"," ","\"",".",".",".","\"",",","\n"," "," "," ",
      " "," "," "," "," "," "," ","\"","y","e","m","e","k","l",
      "e","r","\"",":"," ","[","\n"," "," "," "," "," "," "," ",
      " "," "," "," "," ","{","\n"," "," "," "," "," "," "," ",
      " "," "," "," "," "," "," ","\"","i","s","i","m","\"",":",
      " ","\"","Y","e","m","e","k"," ","a","d","u0131","\"",",","\n",
      " "," "," "," "," "," "," "," "," "," "," "," "," "," ",
      "\"","a","c","i","k","l","a","m","a","\"",":"," ","\"","Y",
      "e","m","e","k"," ","h","a","k","k","u0131","n","d","a"," ",
      "k","u0131","s","a"," ","a","u00E7","u0131","k","l","a","m","a","\"",
      ",","\n"," "," "," "," "," "," "," "," "," "," "," "," ",
      " "," ","\"","e","n","_","i","y","i","_","r","e","s","t",
      "o","r","a","n","l","a","r","\"",":"," ","[","\n"," "," ",
      " "," "," "," "," "," "," "," "," "," "," "," "," "," ",
      "{","\n"," "," "," "," "," "," "," "," "," "," "," "," ",
      " "," "," "," "," "," ","\"","i","s","i","m","\"",":"," ",
      "\"","R","e","s","t","o","r","a","n"," ","a","d","u0131","\"",
      ",","\n"," "," "," "," "," "," "," "," "," "," "," "," ",
      " "," "," "," "," "," ","\"","a","d","r","e","s","\"",":",
      " ","\"","A","d","r","e","s","\"",",","\n"," "," "," "," ",
      " "," "," "," "," "," "," "," "," "," "," "," "," "," ",
      "\"","i","l","e","t","i","s","i","m","\"",":"," ","\"","T",
      "e","l","e","f","o","n"," ","v","e","y","a"," ","w","e",
      "b"," ","s","i","t","e","s","i","\"","\n"," "," "," "," ",
      " "," "," "," "," "," "," "," "," "," "," "," ","}","\n",
      " "," "," "," "," "," "," "," "," "," "," "," "," "," ",
      "]","\n"," "," "," "," "," "," "," "," "," "," "," "," ",
      "}","\n"," "," "," "," "," "," "," "," "," "," ","]","\n",
      " "," "," "," "," "," "," "," ","}","\n"," "," "," "," ",
      " "," "," "," ","\n"," "," "," "," "," "," "," "," ","u0130",
      "u015F","l","e","n","e","c","e","k"," ","i","u00E7","e","r","i",
      "k",":","\n"," "," "," "," "," "," "," "," ","\n"," "," ",
      " "," "," "," "," "," ">>

\* the cut fires at the ceiling itself
TruncateAtCeiling(md) ==
    IF Len(md) >= MAX_CHARS
    THEN SubSeq(md, 1, MAX_CHARS) \o TRUNCATION_NOTICE
    ELSE md

\* the cut keeps one character too many
TruncateKeepsOneMore(md) ==
    IF Len(md) > MAX_CHARS
    THEN SubSeq(md, 1, MAX_CHARS + 1) \o TRUNCATION_NOTICE
    ELSE md

\* if len(markdown_content) > 15000:
\*     markdown_content = markdown_content[:15000] + "\n\n[...]"
TruncateDocument(md) ==
    IF Len(md) > MAX_CHARS
    THEN SubSeq(md, 1, MAX_CHARS) \o TRUNCATION_NOTICE
    ELSE md

\* prompt += markdown_content
BuildPrompt(md) == PROMPT_TEMPLATE \o md

----------------------------------------------------------------------------
(* process_with_openai: reading the reply                                  *)

FENCE_OPEN  == <<"u0060", "u0060", "u0060", "j", "s", "o", "n">>
FENCE_CLOSE == <<"u0060", "u0060", "u0060">>

\* first index at or after i whose character is not whitespace
RECURSIVE SkipWhitespace(_, _)
SkipWhitespace(s, i) ==
    IF i <= Len(s) /\ s[i] \in Whitespace THEN SkipWhitespace(s, i + 1) ELSE i

\* smallest q in lo..c such that s[q..c-1] is all whitespace
RECURSIVE BackWhitespace(_, _, _)
BackWhitespace(s, lo, c) ==
    IF c > lo /\ s[c - 1] \in Whitespace THEN BackWhitespace(s, lo, c - 1) ELSE c

\* indices at or after p where a closing fence starts
CloseStarts(s, p) == {c \in p..Len(s) : MatchAt(s, FENCE_CLOSE, c)}

\* indices where r'(3 backticks)json\s*([\s\S]*?)\s*(3 backticks)' can match
FenceOpens(s) ==
    {i \in 1..Len(s) :
        /\ MatchAt(s, FENCE_OPEN, i)
        /\ CloseStarts(s, SkipWhitespace(s, i + Len(FENCE_OPEN))) # {}}

\* re.search(r'(3 backticks)json\s*([\s\S]*?)\s*(3 backticks)', result_text): leftmost match,
\* greedy \s* after the tag, lazy group, greedy \s* before the closing fence
SearchJsonFence(s) ==
    IF FenceOpens(s) = {} THEN [found |-> FALSE, group1 |-> <<>>]
    ELSE LET i == Min(FenceOpens(s))
             p == SkipWhitespace(s, i + Len(FENCE_OPEN))
             c == Min(CloseStarts(s, p))
             q == BackWhitespace(s, p, c)
         IN  [found |-> TRUE, group1 |-> SubSeq(s, p, q - 1)]

\* the text handed to json.loads: group(1) when the search matched
Candidate(content) ==
    LET json_match == SearchJsonFence(content) IN
    IF json_match.found THEN json_match.group1 ELSE content

EmptyDict == [k \in {} |-> TRUE]

\* whitespace json.loads skips around a value
JsonWhitespace == {" ", "\t", "\n", "\r"}

\* json.loads(result_text) on texts over the characters of ReplyFragments:
\* the only JSON document these characters can spell is the empty object,
\* with optional whitespace around and inside it; anything else raises
\* json.JSONDecodeError (ok = FALSE)
JsonLoads(s) ==
    LET t == RStripChars(LStripChars(s, JsonWhitespace), JsonWhitespace) IN
    IF /\ Len(t) >= 2
       /\ t[1] = "{"
       /\ t[Len(t)] = "}"
       /\ \A k \in 2..(Len(t) - 1) : t[k] \in JsonWhitespace
    THEN [ok |-> TRUE, value |-> EmptyDict]
    ELSE [ok |-> FALSE, value |-> EmptyDict]

\* the dict built in "except json.JSONDecodeError"
TextResponse(result_text) ==
    [error |-> FALSE, text_response |-> result_text, format |-> "text"]

\* the dict built in "except Exception as e"
ErrorResult(message) == [error |-> TRUE, error_message |-> message]

\* lines 207-229: the inner try and its except json.JSONDecodeError
ParseReply(content) ==
    LET result_text == Candidate(content)
        loaded      == JsonLoads(result_text)
    IN  IF loaded.ok THEN loaded.value ELSE TextResponse(result_text)

\* str(e) of the TypeError re.search raises when message.content is None
NoneContentMessage == "expected string or bytes-like object"

\* a failed call is issued a second time
CallCompletionRetrying(service, calls) ==
    [calls   |-> IF service.kind = "raise" THEN calls + 2 ELSE calls + 1,
     outcome |-> service]

\* self.client.chat.completions.create(...): one call, whatever it does
CallCompletion(service, calls) ==
    [calls |-> calls + 1, outcome |-> service]

\* RomaYemekScraper.process_with_openai
ProcessWithOpenAI(md, service, calls) ==
    LET sent   == TruncateDocument(md)
        call   == CallCompletion(service, calls)
        result == CASE call.outcome.kind = "raise" ->
                          ErrorResult(call.outcome.message)
                    [] call.outcome.kind = "no_content" ->
                          ErrorResult(NoneContentMessage)
                    [] call.outcome.kind = "reply" ->
                          ParseReply(call.outcome.content)
    IN  [doc_sent |-> sent,
         prompt   |-> BuildPrompt(sent),
         calls    |-> call.calls,
         result   |-> result]

----------------------------------------------------------------------------
(* scrape_with_requests                                                    *)

Return(v) == [raised |-> FALSE, value |-> v]
Raise     == [raised |-> TRUE, value |-> <<>>]

\* response.raise_for_status() raises on 4xx and 5xx
RaiseForStatus(status) == 400 <= status /\ status < 600

\* the body of the try: requests.get, raise_for_status, return response.text
ScrapeTry(n) ==
    IF n.kind = "transport_error" THEN Raise
    ELSE IF RaiseForStatus(n.status) THEN Raise
    ELSE Return(n.text)

\* the exception leaves the method
ScrapeWithRequestsUncaught(n) == ScrapeTry(n)

\* RomaYemekScraper.scrape_with_requests: except Exception -> return ""
ScrapeWithRequests(n) ==
    IF ScrapeTry(n).raised THEN Return(<<>>) ELSE ScrapeTry(n)

----------------------------------------------------------------------------
(* scrape_and_process_roma_yemek and main                                  *)

ROMA_YEMEK_URL == "https://www.bizevdeyokuz.com/roma-ne-nerede-yenir"

\* the result starts out as a failure record
InitialResultsFailed(url) ==
    [url           |-> url,
     title         |-> "Roma'da Ne Nerede Yenir",
     processed     |-> FALSE,
     openai_result |-> ErrorResult("fetch returned no content")]

\* results = {"url": url, "title": ..., "processed": False,
\*            "openai_result": {}}
InitialResults(url) ==
    [url           |-> url,
     title         |-> "Roma'da Ne Nerede Yenir",
     processed     |-> FALSE,
     openai_result |-> EmptyDict]

\* the early return is never taken
FetchFailedNever(html) == FALSE

\* if not html_content:
FetchFailed(html) == html = <<>>

\* the value of openai_result before line 267 assigns it
Unassigned == [unassigned |-> TRUE]

\* lines 248-258: build results, fetch the page
Fetch ==
    /\ pc = "start"
    /\ results' = InitialResults(ROMA_YEMEK_URL)
    /\ IF ScrapeWithRequests(net).raised
       THEN /\ pc' = "raised"
            /\ UNCHANGED html_content
       ELSE /\ pc' = "fetched"
            /\ html_content' = ScrapeWithRequests(net).value
    /\ UNCHANGED <<markdown_content, openai_result, returned, llm_calls,
                   doc_sent, prompt, printed, envVars, cleanVars>>

\* lines 259-261: nothing was fetched, return results as built
ReturnEarly ==
    /\ pc = "fetched"
    /\ FetchFailed(html_content)
    /\ returned' = results
    /\ pc' = "returned"
    /\ UNCHANGED <<html_content, markdown_content, openai_result, results,
                   llm_calls, doc_sent, prompt, printed, envVars, cleanVars>>

\* line 264: html_to_markdown, whose last step is _clean_markdown
Convert ==
    /\ pc = "fetched"
    /\ ~FetchFailed(html_content)
    /\ markdown_content' = CleanMarkdown(md_raw)
    /\ pc' = "converted"
    /\ UNCHANGED <<html_content, openai_result, results, returned, llm_calls,
                   doc_sent, prompt, printed, envVars, cleanVars>>

\* line 267: openai_result = self.process_with_openai(markdown_content)
Process ==
    /\ pc = "converted"
    /\ LET r == ProcessWithOpenAI(markdown_content, llm, llm_calls) IN
          /\ doc_sent' = r.doc_sent
          /\ prompt' = r.prompt
          /\ llm_calls' = r.calls
          /\ openai_result' = r.result
    /\ pc' = "processed"
    /\ UNCHANGED <<html_content, markdown_content, results, returned,
                   printed, envVars, cleanVars>>

\* lines 270-274: store the result, mark processed, return
Finish ==
    /\ pc = "processed"
    /\ results' = [results EXCEPT !.openai_result = openai_result,
                                  !.processed = TRUE]
    /\ returned' = results'
    /\ pc' = "returned"
    /\ UNCHANGED <<html_content, markdown_content, openai_result, llm_calls,
                   doc_sent, prompt, printed, envVars, cleanVars>>

\* main, lines 299-305: the summary, or the error line with the message
\* when the result carries one
MainPrint ==
    /\ pc = "returned"
    /\ printed' =
          IF returned.processed /\ "error" \notin DOMAIN returned.openai_result
          THEN "summary"
          ELSE IF "error_message" \in DOMAIN returned.openai_result
               THEN "error_with_message"
               ELSE "error"
    /\ pc' = "done"
    /\ UNCHANGED <<html_content, markdown_content, openai_result, results,
                   returned, llm_calls, doc_sent, prompt, envVars, cleanVars>>

----------------------------------------------------------------------------
(* Inputs                                                                  *)

\* concatenations of at most n fragments of F
RECURSIVE Texts(_, _)
Texts(F, n) ==
    IF n = 0 THEN {<<>>}
    ELSE LET shorter == Texts(F, n - 1) IN
         shorter \cup {t \o f : t \in shorter, f \in F}

MaxCleanPieces == 5
MaxReplyPieces == 3
MaxTailLen     == 4

CleanFragments ==
    {<<"\n">>, <<" ">>, <<"a">>, SKIP_TO_CONTENT, BIZ_EVDE_YOKUZ}

CleanInputs == Texts(CleanFragments, MaxCleanPieces)

ReplyFragments ==
    {FENCE_OPEN, FENCE_CLOSE, <<"\n">>, <<"{">>, <<"}">>, <<"x">>}

Replies == Texts(ReplyFragments, MaxReplyPieces)

\* str(e) of the errors the completion call raises
ErrorMessages == {"insufficient_quota", "Connection error."}

LlmOutcomes ==
    {[kind |-> "raise", message |-> m, content |-> <<>>] :
        m \in ErrorMessages}
    \cup {[kind |-> "no_content", message |-> "", content |-> <<>>]}
    \cup {[kind |-> "reply", message |-> "", content |-> r] : r \in Replies}

HtmlBodies == {<<>>, <<"<", "p", ">", "a", "<", "/", "p", ">">>}

NetOutcomes ==
    {[kind |-> "transport_error", status |-> 0, text |-> <<>>]}
    \cup {[kind |-> "response", status |-> st, text |-> body] :
             st \in {200, 404, 500}, body \in HtmlBodies}

\* markdownify outputs: empty, blank-line runs, a boilerplate span
RawMarkdowns ==
    {<<>>,
     <<"#", " ", "a", "\n", "\n", "\n", "\n", "a", "\n">>,
     SKIP_TO_CONTENT \o <<"\n">> \o BIZ_EVDE_YOKUZ \o <<"\n", "\n", "a">>}

\* n characters of running text, a newline closing every 50th
Filler(n) == [i \in 1..n |-> IF i % 50 = 0 THEN "\n" ELSE "a"]

\* cleaned documents just below, at and above the ceiling, and short ones
PromptDocs ==
    {base \o tail : base \in {<<>>, Filler(MAX_CHARS - 2)},
                    tail \in Texts({<<"a">>, <<"b">>}, MaxTailLen)}

PromptLlmOutcomes ==
    {[kind |-> "raise", message |-> "insufficient_quota", content |-> <<>>],
     [kind |-> "reply", message |-> "", content |-> <<"{", "}">>],
     [kind |-> "reply", message |-> "", content |-> <<"x">>]}

----------------------------------------------------------------------------
(* Specification of one run of main                                        *)

CleanIdle == clean_in = <<>> /\ clean_out = <<>>

PipeStart ==
    /\ html_content = <<>>
    /\ markdown_content = <<>>
    /\ openai_result = Unassigned
    /\ results = EmptyDict
    /\ returned = EmptyDict
    /\ llm_calls = 0
    /\ doc_sent = <<>>
    /\ prompt = <<>>
    /\ printed = "nothing"

Init ==
    /\ pc = "start"
    /\ net \in NetOutcomes
    /\ md_raw \in RawMarkdowns
    /\ llm \in LlmOutcomes
    /\ PipeStart
    /\ CleanIdle

Next == Fetch \/ ReturnEarly \/ Convert \/ Process \/ Finish \/ MainPrint

Spec == Init /\ [][Next]_vars

----------------------------------------------------------------------------
(* Specification of process_with_openai on documents around the ceiling    *)

\* the run is about to call process_with_openai: the page was fetched and
\* markdown_content is the cleaned document
InitPrompt ==
    /\ pc = "converted"
    /\ net = [kind |-> "response", status |-> 200,
              text |-> <<"<", "p", ">", "a", "<", "/", "p", ">">>]
    /\ md_raw \in PromptDocs
    /\ llm \in PromptLlmOutcomes
    /\ html_content = net.text
    /\ markdown_content = md_raw
    /\ openai_result = Unassigned
    /\ results = InitialResults(ROMA_YEMEK_URL)
    /\ returned = EmptyDict
    /\ llm_calls = 0
    /\ doc_sent = <<>>
    /\ prompt = <<>>
    /\ printed = "nothing"
    /\ CleanIdle

NextPrompt == Process \/ Finish

SpecPrompt == InitPrompt /\ [][NextPrompt]_vars

----------------------------------------------------------------------------
(* Specification of _clean_markdown applied once and then to its output    *)

InitClean ==
    /\ clean_in \in CleanInputs
    /\ clean_out = <<>>
    /\ pc = "idle"
    /\ net = [kind |-> "transport_error", status |-> 0, text |-> <<>>]
    /\ md_raw = <<>>
    /\ llm = [kind |-> "no_content", message |-> "", content |-> <<>>]
    /\ PipeStart

\* markdown_content = self._clean_markdown(markdown_content)
CleanFirst ==
    /\ clean_out = <<>>
    /\ clean_out' = <<CleanMarkdown(clean_in)>>
    /\ UNCHANGED <<clean_in, envVars, pipeVars>>

\* the output is passed to _clean_markdown again
CleanAgain ==
    /\ Len(clean_out) = 1
    /\ clean_out' = Append(clean_out, CleanMarkdown(clean_out[1]))
    /\ UNCHANGED <<clean_in, envVars, pipeVars>>

NextClean == CleanFirst \/ CleanAgain

SpecClean == InitClean /\ [][NextClean]_vars

----------------------------------------------------------------------------
(* Properties                                                              *)

\* the fetch step has run and returned empty content
FetchReturnedEmpty == pc \notin {"start", "idle"} /\ html_content = <<>>

\* the orchestrator has returned its result to main
Returned == pc \in {"returned", "done"}

\* the completion call was made, answered with text, and the text handed
\* to json.loads did not parse
ReplyNotJson ==
    /\ llm_calls > 0
    /\ llm.kind = "reply"
    /\ ~JsonLoads(Candidate(llm.content)).ok

\* C1: in a run whose fetch step returns empty content the completion call
\* is never issued (the call count stays 0) and the returned result has
\* processed = false.
C1_ShortCircuit ==
    FetchReturnedEmpty =>
        /\ llm_calls = 0
        /\ Returned => returned.processed = FALSE

\* a run whose fetch came back empty has returned and printed
C1_Witness == pc = "done" /\ FetchReturnedEmpty

\* C2 as stated: when the fetch step returns empty content the returned
\* extraction is a failure value with the message "fetch returned no content".
C2_FailedWithMessage ==
    (Returned /\ FetchReturnedEmpty) =>
        /\ "error_message" \in DOMAIN returned.openai_result
        /\ returned.openai_result["error_message"] =
              "fetch returned no content"

\* C2 amended: when the fetch step returns empty content the returned
\* result has processed = false and its extraction is the empty record: it
\* carries no failure tag and no message.
C2_EmptyExtraction ==
    (Returned /\ FetchReturnedEmpty) =>
        /\ returned.processed = FALSE
        /\ DOMAIN returned.openai_result = {}

\* a run whose fetch failed on the transport has returned
C2_Witness ==
    /\ pc = "returned"
    /\ FetchReturnedEmpty
    /\ net.kind = "transport_error"

\* C3: the completion call is issued at most once in a run; when it raises
\* it is not retried and the run's extraction is the failure record
\* carrying the raised error's message.
C3_NoRetry ==
    /\ llm_calls <= 1
    /\ (llm_calls > 0 /\ llm.kind = "raise") =>
          /\ openai_result = ErrorResult(llm.message)
          /\ Returned => returned.openai_result = ErrorResult(llm.message)

\* a run whose completion call raised has returned
C3_Witness ==
    /\ pc = "returned"
    /\ llm.kind = "raise"
    /\ llm_calls = 1
    /\ returned.processed = TRUE

\* C4 as stated: when the text handed to json.loads does not parse, the
\* result is the text record whose text is the model's reply as received,
\* also when the reply held a fenced block with invalid JSON inside.
C4_UnstructuredKeepsReply ==
    ReplyNotJson =>
        /\ "text_response" \in DOMAIN openai_result
        /\ openai_result["text_response"] = llm.content

\* C5 as stated: a run whose fetch and completion call succeed but whose
\* reply is not valid JSON is shown through the summary branch of main,
\* never through the error branch.
C5_TextResultShown ==
    (pc = "done" /\ ReplyNotJson) => printed = "summary"

C7_TruncationBound ==
    llm_calls > 0 =>
        IF Len(markdown_content) > MAX_CHARS
        THEN /\ Len(doc_sent) = MAX_CHARS + Len(TRUNCATION_NOTICE)
             /\ SubSeq(doc_sent, 1, MAX_CHARS) =
                   SubSeq(markdown_content, 1, MAX_CHARS)
        ELSE doc_sent = markdown_content

\* a document longer than the ceiling went through process_with_openai
C7_Witness ==
    /\ pc = "processed"
    /\ Len(markdown_content) > MAX_CHARS
    /\ Len(doc_sent) < Len(markdown_content) + Len(TRUNCATION_NOTICE)

\* C8 as stated: the user prompt is at most max_chars plus the length of
\* the instructions long.
C8_PromptWithinCeiling ==
    llm_calls > 0 => Len(prompt) <= MAX_CHARS + Len(PROMPT_TEMPLATE)

\* C8 amended: the user prompt is at most max_chars plus the length of the
\* truncation notice plus the length of the instructions long.
C8_PromptWithinCeilingAndNotice ==
    llm_calls > 0 =>
        Len(prompt) <=
            MAX_CHARS + Len(TRUNCATION_NOTICE) + Len(PROMPT_TEMPLATE)

\* a cut document was sent and the prompt is exactly at the amended bound
C8_Witness ==
    /\ pc = "processed"
    /\ Len(markdown_content) > MAX_CHARS
    /\ Len(prompt) =
          MAX_CHARS + Len(TRUNCATION_NOTICE) + Len(PROMPT_TEMPLATE)

C10_Idempotent ==
    Len(clean_out) = 2 => clean_out[2] = clean_out[1]

\* the first application removed a boilerplate span and left text that
\* still starts a span, and the second application has run on it
C10_Witness ==
    /\ Len(clean_out) = 2
    /\ clean_out[1] # Strip(CollapseNewlines(clean_in))
    /\ \E i \in 1..Len(clean_out[1]) :
          MatchAt(clean_out[1], SKIP_TO_CONTENT, i)

====
